---- MODULE Spec2Model ----
(***************************************************************************)
(* A model of emotioncf/cf.py: the BaseCF lifecycle (mask, split,          *)
(* dilation, downsample, evaluation accessors) and the fit/predict pairs   *)
(* of Mean, KNN, NNMF_multiplicative and NNMF_sgd.                         *)
(*                                                                         *)
(* A pandas DataFrame is a record [none, index, columns, values]: the row  *)
(* labels, the column labels and a sequence of rows.  A rating cell is a   *)
(* pair <<n, d>>: the rational n/d when d > 0, NaN when <<0, 0>>, and      *)
(* Unknown (a float whose value the model does not track: the output of    *)
(* the random factorisations and of the similarity-weighted votes) when    *)
(* <<1, 0>>.  A mask cell is a BOOLEAN.                                    *)
(***************************************************************************)
EXTENDS Integers, Sequences, FiniteSets, TLC

\* ------------------------------------------------------------------ bounds
NSub == 2
NItems == 3
MaxMissing == 1
MaxHeldOut == 1
MaxCalls == 1
MaxIterations == 1
MaxOverrun == 2

\* ------------------------------------------------------------- rationals
NaN == <<0, 0>>
Unknown == <<1, 0>>

RECURSIVE Gcd(_, _)
Gcd(a, b) == IF b = 0 THEN a ELSE Gcd(b, a % b)

Rat(n, d) == LET g == Gcd(n, d) IN IF g = 0 THEN <<0, 1>> ELSE <<n \div g, d \div g>>

IsNull(x) == x = NaN

RatAdd(x, y) == Rat(x[1] * y[2] + y[1] * x[2], x[2] * y[2])

RECURSIVE SumSeq(_)
SumSeq(s) == IF s = <<>> THEN <<0, 1>> ELSE RatAdd(Head(s), SumSeq(Tail(s)))

\* pandas/numpy mean with skipna over a sequence of cells
NanMean(s) ==
  LET obs == SelectSeq(s, LAMBDA x : ~IsNull(x))
  IN IF obs = <<>> THEN NaN
     ELSE IF \E i \in 1..Len(obs) : obs[i] = Unknown THEN Unknown
     ELSE LET t == SumSeq(obs) IN Rat(t[1], t[2] * Len(obs))

CeilDiv(a, b) == (a + b - 1) \div b

Max(a, b) == IF a >= b THEN a ELSE b
Min(a, b) == IF a <= b THEN a ELSE b

\* ------------------------------------------------------------ data frames
None == [none |-> TRUE, index |-> <<>>, columns |-> <<>>, values |-> <<>>]

DF(idx, cols, vals) == [none |-> FALSE, index |-> idx, columns |-> cols, values |-> vals]

NRows(df) == Len(df.index)
NCols(df) == Len(df.columns)

Cells(df) == (1..NRows(df)) \X (1..NCols(df))

MapCells(df, F(_, _)) ==
  DF(df.index, df.columns,
     [r \in 1..NRows(df) |-> [c \in 1..NCols(df) |-> F(r, c)]])

\* df[mask]: cells where the mask is False become NaN
Where(df, mask) ==
  MapCells(df, LAMBDA r, c : IF mask.values[r][c] THEN df.values[r][c] ELSE NaN)

\* ~df.isnull()
NotNull(df) == MapCells(df, LAMBDA r, c : ~IsNull(df.values[r][c]))

TrueCells(mask) == {rc \in Cells(mask) : mask.values[rc[1]][rc[2]]}
FalseCells(mask) == {rc \in Cells(mask) : ~mask.values[rc[1]][rc[2]]}

RowCount(mask, r) == Cardinality({c \in 1..NCols(mask) : mask.values[r][c]})

SameLabels(a, b) == a.index = b.index /\ a.columns = b.columns
SameShape(a, b) ==
  /\ Len(a.values) = Len(b.values)
  /\ \A r \in 1..Len(a.values) : r \in 1..Len(b.values) /\ Len(a.values[r]) = Len(b.values[r])


\* --------------------------------------------------------------- the object
\* The fields of a model instance, as one record, so that a method which calls
\* another method (fit -> _dilate_ts_rating_samples) composes.  An absent
\* (None) numeric argument or attribute is 0; every real width or count is >= 1.
NoArg == 0

Ok == "ok"

Ret(s, e) == [self |-> s, err |-> e]

\* Fit artifacts before fit().  A similarity matrix is kept as the metric and the
\* table it was computed from; a factor matrix as its shape <<rows, columns>>
\* (its entries are random floats); the SGD state as the shapes
\* <<n_users, n_items, n_factors>>, the training table and the sampled cells.
NoSim == [none |-> TRUE, metric |-> "", ratings |-> None]
NoMatrix == <<0, 0>>
NoSgd == [none |-> TRUE, shape |-> <<0, 0, 0>>, ratings |-> None, samples |-> {}]

\* BaseCF.__init__ up to the optional split; the subclass attributes start None.
\* A mask argument of None is the value None.
BaseInit(r, mask) ==
  LET base == [ratings |-> r, predicted_ratings |-> None,
               is_fit |-> FALSE, is_predict |-> FALSE,
               is_mask_dilated |-> FALSE, dilated_mask |-> None,
               train_mask |-> None, masked_ratings |-> None, is_mask |-> FALSE,
               n_train_items |-> NoArg,
               mean |-> None, subject_similarity |-> NoSim,
               H |-> NoMatrix, W |-> NoMatrix, sgd |-> NoSgd]
  IN IF ~mask.none
       THEN [base EXCEPT !.train_mask = mask, !.masked_ratings = Where(r, mask),
                         !.is_mask = TRUE]
     ELSE IF \E rc \in Cells(r) : IsNull(r.values[rc[1]][rc[2]])
       THEN [base EXCEPT !.train_mask = NotNull(r), !.masked_ratings = Where(r, NotNull(r)),
                         !.is_mask = TRUE]
     ELSE base

\* np.random.choice(columns, replace=False, size=k) for every subject: the
\* positions drawn, one set per row.
Choices(s, k) ==
  [1..NRows(s.ratings) -> {S \in SUBSET (1..NCols(s.ratings)) : Cardinality(S) = k}]

\* The mask that train_mask.loc[sub, items] = True builds: .loc addresses by label.
SplitMask(r, ch) ==
  MapCells(r, LAMBDA i, c :
    \E i2 \in 1..NRows(r) : /\ r.index[i2] = r.index[i]
                            /\ \E j \in ch[i2] : r.columns[j] = r.columns[c])

\* mutant: the new mask is laid over the mask that was there
SplitTrainTestKeepsMask(s, k, ch) ==
  LET m == MapCells(s.ratings, LAMBDA i, c :
             SplitMask(s.ratings, ch).values[i][c]
             \/ (s.is_mask /\ s.train_mask.values[i][c]))
  IN IF k > NCols(s.ratings)
       THEN Ret([s EXCEPT !.n_train_items = k], "choice_larger_than_population")
     ELSE Ret([s EXCEPT !.n_train_items = k, !.train_mask = m,
                        !.masked_ratings = Where(s.ratings, m), !.is_mask = TRUE], Ok)

SplitTrainTest(s, k, ch) ==
  LET cleared == MapCells(s.ratings, LAMBDA i, c : FALSE)
      s1 == [s EXCEPT !.n_train_items = k, !.train_mask = cleared]
  IN IF k > NCols(s.ratings)
       THEN Ret(s1, "choice_larger_than_population")
     ELSE LET m == SplitMask(s.ratings, ch)
          IN Ret([s1 EXCEPT !.train_mask = m, !.masked_ratings = Where(s.ratings, m),
                            !.is_mask = TRUE], Ok)

\* ------------------------------------------------------------- dilation
\* np.convolve(x, ones(n), mode='same'): output i sums the inputs of a window;
\* the output is as long as the longer of the two arguments.
ConvWindow(len, n_samples, i) ==
  LET k == (i - 1) + ((Min(len, n_samples) - 1) \div 2)
  IN {j \in 1..len : k - (n_samples - 1) <= j - 1 /\ j - 1 <= k}

WindowCells(sub_rating, win) == SelectSeq([j \in 1..Len(sub_rating) |->
                                  IF j \in win THEN sub_rating[j] ELSE NaN],
                                  LAMBDA x : ~IsNull(x))

ConvTsMeanOverlap(sub_rating, n_samples) ==
  [i \in 1..Max(Len(sub_rating), n_samples) |->
     NanMean(WindowCells(sub_rating, ConvWindow(Len(sub_rating), n_samples, i)))]

DilateTsRatingSamples(s, n_samples) ==
  IF n_samples = NoArg THEN Ret(s, "invalid_argument")
  ELSE IF ~s.is_mask THEN Ret(s, "no_mask")
  ELSE LET m0 == Where(s.ratings, s.train_mask)
           s1 == [s EXCEPT !.masked_ratings = m0]
           rows == [r \in 1..NRows(m0) |-> ConvTsMeanOverlap(m0.values[r], n_samples)]
       IN IF \E r \in 1..NRows(m0) : Len(rows[r]) # NCols(m0)
            THEN Ret(s1, "cannot_broadcast")
          ELSE LET m1 == DF(m0.index, m0.columns, rows)
               IN Ret([s1 EXCEPT !.masked_ratings = m1, !.dilated_mask = NotNull(m1),
                                 !.is_mask_dilated = TRUE], Ok)

\* ------------------------------------------------------------ downsample
\* The bin width ds() derives from its arguments; "hz" divides under true
\* division and yields a float, written FloatWidth.
FloatWidth == "float"

TargetTypes == {"samples", "seconds", "hz"}

\* np.arange(1, width / n_samples, 1): the integers k >= 1 with k < width / n_samples
ArangeLen(width, n_samples) == Cardinality({k \in 1..width : k * n_samples < width})

\* idx of ds(): each arange value repeated n_samples times, then the remainder
\* of the columns in one more bin.  An empty arange has no last element.
DsIdx(width, n_samples) ==
  LET m == ArangeLen(width, n_samples)
  IN [i \in 1..width |-> IF i <= m * n_samples THEN ((i - 1) \div n_samples) + 1 ELSE m + 1]

DsError(df, target_type, n_samples) ==
  IF target_type \notin TargetTypes THEN "invalid_argument"
  ELSE IF target_type = "hz" THEN "TypeError"
  ELSE IF NCols(df) > ArangeLen(NCols(df), n_samples) * n_samples
          /\ ArangeLen(NCols(df), n_samples) = 0 THEN "IndexError"
  ELSE Ok

\* ratings.T.groupby(idx).mean().T : one column per bin, the mean of the bin's
\* non-missing cells; the bins' numbers become the column labels.
GroupMean(df, n_samples) ==
  LET idx == DsIdx(NCols(df), n_samples)
      bins == {idx[i] : i \in 1..NCols(df)}
      nb == Cardinality(bins)
  IN DF(df.index, [g \in 1..nb |-> g],
        [r \in 1..NRows(df) |-> [g \in 1..nb |->
           NanMean(SelectSeq([c \in 1..NCols(df) |->
                      IF idx[c] = g THEN df.values[r][c] ELSE NaN],
                      LAMBDA x : ~IsNull(x)))]])

AsNumbers(mask) == MapCells(mask, LAMBDA r, c : IF mask.values[r][c] THEN <<1, 1>> ELSE <<0, 1>>)

\* mask.loc[:, :] = mask > 0
Positive(df) == MapCells(df, LAMBDA r, c : df.values[r][c][2] > 0 /\ df.values[r][c][1] > 0)

NSamplesOf(sampling_freq, target, target_type) ==
  IF target_type = "seconds" THEN target * sampling_freq ELSE target

\* mutant: predicted_ratings is not downsampled with the other tables
DownsampleLeavesPredictions(s, sampling_freq, target, target_type) ==
  IF sampling_freq = NoArg \/ target = NoArg THEN Ret(s, "invalid_argument")
  ELSE
  LET n == NSamplesOf(sampling_freq, target, target_type)
      s1 == [s EXCEPT !.ratings = GroupMean(s.ratings, n)]
      s4 == [s1 EXCEPT !.train_mask = Positive(GroupMean(AsNumbers(s.train_mask), n)),
                       !.masked_ratings = GroupMean(s.masked_ratings, n),
                       !.dilated_mask = IF s.is_mask_dilated
                                          THEN Positive(GroupMean(AsNumbers(s.dilated_mask), n))
                                          ELSE s.dilated_mask]
  IN IF DsError(s.ratings, target_type, n) # Ok THEN Ret(s, DsError(s.ratings, target_type, n))
     ELSE Ret(IF s.is_mask THEN s4 ELSE s1, Ok)

Downsample(s, sampling_freq, target, target_type) ==
  IF sampling_freq = NoArg \/ target = NoArg THEN Ret(s, "invalid_argument")
  ELSE
  LET n == NSamplesOf(sampling_freq, target, target_type)
      e(df) == DsError(df, target_type, n)
      s1 == [s EXCEPT !.ratings = GroupMean(s.ratings, n)]
      s2 == [s1 EXCEPT !.train_mask = Positive(GroupMean(AsNumbers(s.train_mask), n))]
      s3 == [s2 EXCEPT !.masked_ratings = GroupMean(s.masked_ratings, n)]
      s4 == IF s.is_mask_dilated
              THEN [s3 EXCEPT !.dilated_mask = Positive(GroupMean(AsNumbers(s.dilated_mask), n))]
              ELSE s3
      sm == IF s.is_mask THEN s4 ELSE s1
      em == IF ~s.is_mask THEN Ok
            ELSE IF e(s.train_mask) # Ok THEN e(s.train_mask)
            ELSE IF e(s.masked_ratings) # Ok THEN e(s.masked_ratings)
            ELSE IF s.is_mask_dilated THEN e(s.dilated_mask) ELSE Ok
  IN IF e(s.ratings) # Ok THEN Ret(s, e(s.ratings))
     ELSE IF em # Ok
       THEN Ret(IF e(s.train_mask) # Ok THEN s1
                ELSE IF e(s.masked_ratings) # Ok THEN s2 ELSE s3, em)
     ELSE IF ~s.is_predict THEN Ret(sm, Ok)
     ELSE IF e(s.predicted_ratings) # Ok THEN Ret(sm, e(s.predicted_ratings))
     ELSE Ret([sm EXCEPT !.predicted_ratings = GroupMean(s.predicted_ratings, n)], Ok)

\* ------------------------------------------------------------------ Mean
\* df.mean(skipna=True, axis=0): a Series over the column labels, kept as a
\* one-row frame.
ColumnMeans(df) ==
  DF(<<0>>, df.columns,
     << [c \in 1..NCols(df) |-> NanMean(SelectSeq([r \in 1..NRows(df) |-> df.values[r][c]],
                                                  LAMBDA x : ~IsNull(x)))] >>)

MeanFit(s, dilate_ts_n_samples) ==
  IF s.is_mask
    THEN IF dilate_ts_n_samples # NoArg
           THEN LET d == DilateTsRatingSamples(s, dilate_ts_n_samples)
                IN IF d.err # Ok THEN d
                   ELSE Ret([d.self EXCEPT
                              !.mean = ColumnMeans(Where(d.self.masked_ratings, d.self.dilated_mask)),
                              !.is_fit = TRUE], Ok)
         ELSE Ret([s EXCEPT !.mean = ColumnMeans(Where(s.masked_ratings, s.train_mask)),
                            !.is_fit = TRUE], Ok)
  ELSE Ret([s EXCEPT !.mean = ColumnMeans(s.ratings), !.is_fit = TRUE], Ok)

\* predicted_ratings.loc[row] = self.mean aligns the Series on the column labels
AlignedMean(mean, label) ==
  IF \E j \in 1..NCols(mean) : mean.columns[j] = label
    THEN mean.values[1][CHOOSE j \in 1..NCols(mean) : mean.columns[j] = label]
    ELSE NaN

MeanPredict(s) ==
  IF ~s.is_fit THEN Ret(s, "unfit")
  ELSE Ret([s EXCEPT
             !.predicted_ratings = MapCells(s.ratings, LAMBDA r, c :
                                      AlignedMean(s.mean, s.ratings.columns[c])),
             !.is_predict = TRUE], Ok)

\* ------------------------------------------------------------------- KNN
Metrics == {"pearson", "kendall", "spearman", "correlation", "cosine"}

KNNFit(s, metric, dilate_ts_n_samples) ==
  LET local == IF s.is_mask THEN Where(s.ratings, s.train_mask) ELSE s.ratings
      d == IF dilate_ts_n_samples # NoArg
             THEN DilateTsRatingSamples(s, dilate_ts_n_samples) ELSE Ret(s, Ok)
      used == IF dilate_ts_n_samples # NoArg
                THEN Where(d.self.masked_ratings, d.self.dilated_mask) ELSE local
  IN IF d.err # Ok THEN d
     ELSE IF metric \notin Metrics THEN Ret(d.self, "not_implemented")
     ELSE Ret([d.self EXCEPT
                !.subject_similarity = [none |-> FALSE, metric |-> metric, ratings |-> used],
                !.is_fit = TRUE], Ok)

KNNPredict(s, k) ==
  IF ~s.is_fit THEN Ret(s, "unfit")
  ELSE LET base == IF s.is_mask THEN s.masked_ratings ELSE s.ratings
       IN Ret([s EXCEPT !.predicted_ratings = MapCells(base, LAMBDA r, c : Unknown),
                        !.is_predict = TRUE], Ok)

\* What the entries of predicted_ratings are computed from.  ratings.T.corr()
\* gives a pair of subjects a similarity (not NaN) when they share two or more
\* non-missing items and neither row is constant over them.
CommonItems(t, u, v) ==
  {c \in 1..NCols(t) : ~IsNull(t.values[u][c]) /\ ~IsNull(t.values[v][c])}

SimilarityDefined(sim, u, v) ==
  LET cs == CommonItems(sim.ratings, u, v)
      varies(w) == \E c \in cs, d \in cs : sim.ratings.values[w][c] # sim.ratings.values[w][d]
  IN Cardinality(cs) >= 2 /\ varies(u) /\ varies(v)

\* predict(k=None): top_subjects of a row are all other subjects whose
\* similarity is not NaN
TopSubjects(s, r) ==
  {u \in 1..NRows(s.ratings) : u # r /\ SimilarityDefined(s.subject_similarity, u, r)}

\* pred.loc[row, col] = np.dot(top_subjects, self.ratings.loc[top_subjects.index, col]) / len(top_subjects):
\* the neighbours whose similarity weighs in, and the rating read for each
KNNTerms(s) ==
  LET base == IF s.is_mask THEN s.masked_ratings ELSE s.ratings
  IN [r \in 1..NRows(base) |-> [c \in 1..NCols(base) |->
        [u \in TopSubjects(s, r) |-> s.ratings.values[u][c]]]]

\* fit() and predict() on an instance: the similarity matrix and the predictions
KNNOutput(s) ==
  LET f == KNNFit(s, "pearson", NoArg).self
      p == KNNPredict(f, NoArg).self
  IN [subject_similarity |-> f.subject_similarity,
      index |-> p.predicted_ratings.index, columns |-> p.predicted_ratings.columns,
      predicted |-> KNNTerms(f)]

\* --------------------------------------------------- NNMF_multiplicative
\* Residuals are counted in units of 1e-6: the default fit_error_limit is 1 and
\* the residual the loop starts from, 100, is 100000000.  An update leaves a
\* residual below the limit (0) or above it (2).
FitErrorLimit == 1
InitialFitResidual == 100000000
ResidualOutcomes == {0, 2}

\* masked_X[np.isnan(masked_X)] = 0 on the array that the dilation returned:
\* where .values is a view of masked_ratings the zeros land in masked_ratings.
ZeroFilled(df) == MapCells(df, LAMBDA r, c : IF IsNull(df.values[r][c]) THEN <<0, 1>>
                                            ELSE df.values[r][c])

\* np.dot of two matrices given as shapes: the shape of the product, or
\* NoMatrix when the inner dimensions differ.
DotShape(a, b) == IF a[2] = b[1] THEN <<a[1], b[2]>> ELSE NoMatrix

\* NNMF_multiplicative.fit up to the update loop
NNMFFitStart(s, n_factors, dilate_ts_n_samples, view) ==
  LET n_users == NRows(s.ratings)
      n_items == NCols(s.ratings)
      f == IF n_factors = NoArg THEN n_items ELSE n_factors
      s1 == [s EXCEPT !.H = <<n_items, f>>, !.W = <<n_users, f>>]
      d == IF s.is_mask /\ dilate_ts_n_samples # NoArg
             THEN DilateTsRatingSamples(s1, dilate_ts_n_samples) ELSE Ret(s1, Ok)
      s2 == IF s.is_mask /\ dilate_ts_n_samples # NoArg /\ view
              THEN [d.self EXCEPT !.masked_ratings = ZeroFilled(d.self.masked_ratings)]
              ELSE d.self
  IN IF d.err # Ok THEN d
     ELSE IF DotShape(s2.W, s2.H) = NoMatrix THEN Ret(s2, "shapes_not_aligned")
     ELSE Ret(s2, Ok)

NNMFPredict(s) ==
  IF ~s.is_fit THEN Ret(s, "unfit")
  ELSE LET s1 == [s EXCEPT !.predicted_ratings = s.ratings]
           p == DotShape(s.W, s.H)
       IN IF p = NoMatrix THEN Ret(s1, "shapes_not_aligned")
          ELSE IF p # <<NRows(s.ratings), NCols(s.ratings)>> THEN Ret(s1, "shape_mismatch")
          ELSE Ret([s1 EXCEPT !.predicted_ratings = MapCells(s.ratings, LAMBDA r, c : Unknown),
                              !.is_predict = TRUE], Ok)

\* -------------------------------------------------------------- NNMF_sgd
SgdFit(s, n_factors, dilate_ts_n_samples) ==
  LET d == IF dilate_ts_n_samples # NoArg
             THEN DilateTsRatingSamples(s, dilate_ts_n_samples) ELSE Ret(s, Ok)
      t == d.self
      f == IF n_factors = NoArg THEN NCols(s.ratings) ELSE n_factors
      used == IF t.is_mask
                THEN IF t.is_mask_dilated THEN Where(t.masked_ratings, t.dilated_mask)
                                          ELSE Where(t.masked_ratings, t.train_mask)
              ELSE t.ratings
      samples == IF t.is_mask
                   THEN IF t.is_mask_dilated THEN TrueCells(t.dilated_mask)
                                             ELSE TrueCells(t.train_mask)
                 ELSE TrueCells(NotNull(t.ratings))
  IN IF d.err # Ok THEN d
     ELSE Ret([t EXCEPT !.sgd = [none |-> FALSE,
                                 shape |-> <<NRows(s.ratings), NCols(s.ratings), f>>,
                                 ratings |-> used, samples |-> samples],
                        !.is_fit = TRUE], Ok)

\* NNMF_sgd.predict has no is_fit test: it copies ratings, then reads user_vecs.
\* The cells are written row by row; a column past the table's width stops the
\* loop with the cells before it written.
SgdPredict(s) ==
  LET s1 == [s EXCEPT !.predicted_ratings = s.ratings]
      nu == s.sgd.shape[1]
      ni == s.sgd.shape[2]
      w == NCols(s.ratings)
  IN IF s.sgd.none THEN Ret(s1, "AttributeError")
     ELSE IF ni > w
       THEN Ret([s1 EXCEPT !.predicted_ratings = MapCells(s.ratings, LAMBDA r, c :
                              IF r = 1 THEN Unknown ELSE s.ratings.values[r][c])],
                "IndexError")
     ELSE Ret([s1 EXCEPT !.predicted_ratings = MapCells(s.ratings, LAMBDA r, c :
                            IF r <= nu /\ c <= ni THEN Unknown ELSE s.ratings.values[r][c]),
                         !.is_predict = TRUE], Ok)

\* ------------------------------------------------------------ evaluation
DataArgs == {"all", "training", "test"}

\* What a selection yields: the error raised (or Ok), the cells the boolean
\* mask selects and the table the actual values are read from.
Sel(e, cells, actual) == [err |-> e, cells |-> cells, actual |-> actual]

AllNull(df, cells) == \A rc \in cells : IsNull(df.values[rc[1]][rc[2]])

\* mutant: the test cells are read from masked_ratings instead of ratings
RetrievePredictionsTestFromMasked(s, data) ==
  IF data \notin DataArgs THEN Sel("bad_data", {}, "")
  ELSE IF data = "all"
    THEN IF s.is_mask
           THEN IF s.is_mask_dilated
                  THEN Sel(Ok, TrueCells(s.dilated_mask), "masked_ratings")
                  ELSE Sel(Ok, TrueCells(s.train_mask), "masked_ratings")
         ELSE Sel(Ok, Cells(s.ratings), "ratings")
  ELSE IF s.is_mask
    THEN IF data = "training"
           THEN Sel(Ok, TrueCells(s.train_mask), "masked_ratings")
         ELSE IF AllNull(s.masked_ratings, FalseCells(s.train_mask))
           THEN Sel("no_test_data", FalseCells(s.train_mask), "masked_ratings")
         ELSE Sel(Ok, FalseCells(s.train_mask), "masked_ratings")
  ELSE Sel("missing_split", {}, "")

RetrievePredictions(s, data) ==
  IF data \notin DataArgs THEN Sel("bad_data", {}, "")
  ELSE IF data = "all"
    THEN IF s.is_mask
           THEN IF s.is_mask_dilated
                  THEN Sel(Ok, TrueCells(s.dilated_mask), "masked_ratings")
                  ELSE Sel(Ok, TrueCells(s.train_mask), "masked_ratings")
         ELSE Sel(Ok, Cells(s.ratings), "ratings")
  ELSE IF s.is_mask
    THEN IF data = "training"
           THEN Sel(Ok, TrueCells(s.train_mask), "masked_ratings")
         ELSE IF AllNull(s.ratings, FalseCells(s.train_mask))
           THEN Sel("no_test_data", FalseCells(s.train_mask), "ratings")
         ELSE Sel(Ok, FalseCells(s.train_mask), "ratings")
  ELSE Sel("missing_split", {}, "")

GetMse(s, data) ==
  IF ~s.is_fit THEN Sel("unfit", {}, "")
  ELSE IF ~s.is_predict THEN Sel("no_prediction", {}, "")
  ELSE RetrievePredictions(s, data)

GetCorr(s, data) ==
  IF ~s.is_fit THEN Sel("unfit", {}, "")
  ELSE IF ~s.is_predict THEN Sel("no_prediction", {}, "")
  ELSE RetrievePredictions(s, data)

\* The per-subject accessors select the cells themselves, row by row; pairs with
\* a NaN on either side are dropped from the selected cells afterwards.
GetSubMse(s, data) ==
  IF ~s.is_fit THEN Sel("unfit", {}, "")
  ELSE IF ~s.is_predict THEN Sel("no_prediction", {}, "")
  ELSE IF data = "all" THEN Sel(Ok, Cells(s.ratings), "ratings")
  ELSE IF s.is_mask
    THEN IF data = "training"
           THEN IF s.is_mask_dilated
                  THEN Sel(Ok, TrueCells(s.dilated_mask), "masked_ratings")
                  ELSE Sel(Ok, TrueCells(s.train_mask), "masked_ratings")
         ELSE Sel(Ok, FalseCells(s.train_mask), "ratings")
  ELSE Sel("missing_split", {}, "")

\* mutant: the is_predict test is missing
GetSubCorrSkipsPredictTest(s, data) ==
  IF ~s.is_fit THEN Sel("unfit", {}, "")
  ELSE IF data = "all" THEN Sel(Ok, Cells(s.ratings), "ratings")
  ELSE IF s.is_mask THEN Sel(Ok, FalseCells(s.train_mask), "ratings")
  ELSE Sel("missing_split", {}, "")

GetSubCorr(s, data) ==
  IF ~s.is_fit THEN Sel("unfit", {}, "")
  ELSE IF ~s.is_predict THEN Sel("no_prediction", {}, "")
  ELSE IF data = "all" THEN Sel(Ok, Cells(s.ratings), "ratings")
  ELSE IF s.is_mask
    THEN IF data = "training"
           THEN IF s.is_mask_dilated
                  THEN Sel(Ok, TrueCells(s.dilated_mask), "masked_ratings")
                  ELSE Sel(Ok, TrueCells(s.train_mask), "masked_ratings")
         ELSE Sel(Ok, FalseCells(s.train_mask), "ratings")
  ELSE Sel("missing_split", {}, "")

\* ------------------------------------------------------------------ state
VARIABLES
  cls,                \* the class of the instance
  ratings, predicted_ratings, train_mask, masked_ratings, dilated_mask,
  is_fit, is_predict, is_mask, is_mask_dilated, n_train_items,
  mean, subject_similarity, H, W, sgd,      \* the fit artifacts
  pc, ctr, fit_residual, max_iterations,    \* NNMF_multiplicative.fit's loop
  calls,              \* mutating calls made so far
  last                \* the call that returned last and its outcome

fields == <<ratings, predicted_ratings, train_mask, masked_ratings, dilated_mask,
            is_fit, is_predict, is_mask, is_mask_dilated, n_train_items,
            mean, subject_similarity, H, W, sgd>>
loop == <<pc, ctr, fit_residual, max_iterations>>
vars == <<cls, fields, loop, calls, last>>

Classes == {"Mean", "KNN", "NNMF_multiplicative", "NNMF_sgd"}

Self == [ratings |-> ratings, predicted_ratings |-> predicted_ratings,
         train_mask |-> train_mask, masked_ratings |-> masked_ratings,
         dilated_mask |-> dilated_mask, is_fit |-> is_fit, is_predict |-> is_predict,
         is_mask |-> is_mask, is_mask_dilated |-> is_mask_dilated,
         n_train_items |-> n_train_items, mean |-> mean,
         subject_similarity |-> subject_similarity, H |-> H, W |-> W, sgd |-> sgd]

Store(s) ==
  /\ ratings' = s.ratings /\ predicted_ratings' = s.predicted_ratings
  /\ train_mask' = s.train_mask /\ masked_ratings' = s.masked_ratings
  /\ dilated_mask' = s.dilated_mask /\ is_fit' = s.is_fit /\ is_predict' = s.is_predict
  /\ is_mask' = s.is_mask /\ is_mask_dilated' = s.is_mask_dilated
  /\ n_train_items' = s.n_train_items /\ mean' = s.mean
  /\ subject_similarity' = s.subject_similarity /\ H' = s.H /\ W' = s.W /\ sgd' = s.sgd

\* moved: whether the call changed any field of the instance
Outcome(op, arg, e, cells, moved) ==
  [op |-> op, arg |-> arg, err |-> e, cells |-> cells, moved |-> moved]

\* ----------------------------------------------------------------- inputs
\* The ratings tables a caller constructs a model over: subjects 1..NSub, items
\* labelled 101.., every cell a rating or the missing marker.
ItemLabel(c) == 100 + c
BaseRating(r, c) == <<2 * r + c, 1>>

\* Missing markers and held-out cells of the inputs lie in the first subject's row.
Row1 == {1} \X (1..NItems)

RatingsInputs ==
  {DF([r \in 1..NSub |-> r], [c \in 1..NItems |-> ItemLabel(c)],
      [r \in 1..NSub |-> [c \in 1..NItems |->
         IF <<r, c>> \in missing THEN NaN ELSE BaseRating(r, c)]]) :
   missing \in {M \in SUBSET Row1 : Cardinality(M) <= MaxMissing}}

MaskInputs(r) ==
  {None} \cup {MapCells(r, LAMBDA i, c : <<i, c>> \notin held) :
               held \in {M \in SUBSET Row1 : Cardinality(M) <= MaxHeldOut}}

DilateArgs == 0..(NItems + 1)
FitDilateArgs == {NoArg, 2}
MetricArgs == {"pearson", "euclidean"}
FactorArgs == {NoArg, 1}
EvalArgs == DataArgs \cup {"validation"}
TargetTypeArgs == TargetTypes \cup {"minutes"}

\* A second instance over the same labels and the same train_mask whose ratings
\* differ from s's in one held-out cell.
OtherRating == <<9, 1>>
HeldOutVariants(s) ==
  {[s EXCEPT !.ratings = MapCells(s.ratings, LAMBDA r, c :
                            IF <<r, c>> = rc THEN OtherRating ELSE s.ratings.values[r][c]),
             !.masked_ratings = Where(MapCells(s.ratings, LAMBDA r, c :
                            IF <<r, c>> = rc THEN OtherRating ELSE s.ratings.values[r][c]),
                          s.train_mask)] : rc \in FalseCells(s.train_mask)}

\* constructor: BaseCF.__init__, then the subclass's own attributes.  With
\* n_train_items the constructor ends in a call of split_train_test, which counts
\* among the reshaping calls.
Init ==
  /\ cls \in Classes
  /\ \E r \in RatingsInputs : \E m \in MaskInputs(r) : \E k \in 0..NItems :
       \E ch \in Choices(BaseInit(r, m), k) :
         LET s == IF k = NoArg THEN BaseInit(r, m)
                  ELSE SplitTrainTest(BaseInit(r, m), k, ch).self
         IN /\ ratings = s.ratings /\ predicted_ratings = s.predicted_ratings
            /\ train_mask = s.train_mask /\ masked_ratings = s.masked_ratings
            /\ dilated_mask = s.dilated_mask /\ is_fit = s.is_fit
            /\ is_predict = s.is_predict /\ is_mask = s.is_mask
            /\ is_mask_dilated = s.is_mask_dilated /\ n_train_items = s.n_train_items
            /\ mean = s.mean /\ subject_similarity = s.subject_similarity
            /\ H = s.H /\ W = s.W /\ sgd = s.sgd
  /\ pc = "idle" /\ ctr = 0 /\ fit_residual = 0 /\ max_iterations = 0
  /\ calls = IF n_train_items = NoArg THEN 0 ELSE 1
  /\ last = Outcome(IF n_train_items = NoArg THEN "__init__" ELSE "split_train_test",
                    "", Ok, {}, TRUE)

\* ---------------------------------------------------------------- actions
\* A call that returns with every field as it was leaves the instance where it
\* was: the calls that can follow it are the calls that could be made in its
\* place, and the model makes them from there.
Idle == pc = "idle"
CanCall == Idle /\ last.moved
\* split_train_test, dilation and downsample reshape the instance: a behaviour
\* makes at most MaxCalls of them, and any number of fit and predict calls.
CanReshape == CanCall /\ calls < MaxCalls

Call(r, op, arg) ==
  /\ Store(r.self)
  /\ last' = Outcome(op, arg, r.err, {}, r.self # Self)
  /\ UNCHANGED <<cls, loop>>

SplitTrainTestCall ==
  /\ CanReshape /\ calls' = calls + 1
  /\ \E k \in 1..NItems : \E ch \in Choices(Self, Min(k, NCols(ratings))) :
       Call(SplitTrainTest(Self, k, ch), "split_train_test", "")

DilateCall ==
  /\ CanReshape /\ calls' = calls + 1
  /\ \E n \in DilateArgs : Call(DilateTsRatingSamples(Self, n), "dilate", "")

DownsampleCall ==
  /\ CanReshape /\ calls' = calls + 1
  /\ \E f \in 0..2 : \E target \in 0..NItems : \E tt \in TargetTypeArgs :
       Call(Downsample(Self, f, target, tt), "downsample", "")

FitMean ==
  /\ CanCall /\ UNCHANGED calls /\ cls = "Mean"
  /\ \E d \in FitDilateArgs : Call(MeanFit(Self, d), "fit", "")

FitKNN ==
  /\ CanCall /\ UNCHANGED calls /\ cls = "KNN"
  /\ \E d \in FitDilateArgs : \E m \in MetricArgs : Call(KNNFit(Self, m, d), "fit", "")

FitSgd ==
  /\ CanCall /\ UNCHANGED calls /\ cls = "NNMF_sgd"
  /\ \E d \in FitDilateArgs : Call(SgdFit(Self, NoArg, d), "fit", "")

\* NNMF_multiplicative.fit: the statements before the loop.  An error ends the
\* call; otherwise ctr = 1, fit_residual = 100 and the loop is entered.
FitNNMF ==
  /\ CanCall /\ cls = "NNMF_multiplicative"
  /\ \E d \in FitDilateArgs : \E f \in FactorArgs : \E mi \in 0..MaxIterations : \E view \in BOOLEAN :
       LET r == NNMFFitStart(Self, f, d, view)
       IN /\ Store(r.self)
          /\ UNCHANGED calls
          /\ IF r.err # Ok
               THEN /\ last' = Outcome("fit", "", r.err, {}, r.self # Self)
                    /\ UNCHANGED loop
               ELSE /\ last' = Outcome("fit", "", "running", {}, TRUE)
                    /\ pc' = "nnmf_loop" /\ ctr' = 1
                    /\ fit_residual' = InitialFitResidual
                    /\ max_iterations' = mi
          /\ UNCHANGED cls

\* while ctr <= max_iterations or fit_residual < fit_error_limit
LoopCondition == ctr <= max_iterations \/ fit_residual < FitErrorLimit

\* The locals of fit are gone once it returns.
\* One pass of the loop body: W and H are updated in place (their shapes stay),
\* the residual is recomputed and ctr is incremented.
NNMFUpdate ==
  /\ pc = "nnmf_loop" /\ LoopCondition
  /\ ctr <= max_iterations + MaxOverrun
  /\ \E res \in ResidualOutcomes : fit_residual' = res
  /\ ctr' = ctr + 1
  /\ UNCHANGED <<cls, fields, pc, max_iterations, calls, last>>

NNMFReturn ==
  /\ pc = "nnmf_loop" /\ ~LoopCondition
  /\ is_fit' = TRUE
  /\ pc' = "idle" /\ ctr' = 0 /\ fit_residual' = 0 /\ max_iterations' = 0
  /\ last' = Outcome("fit", "", Ok, {}, TRUE)
  /\ UNCHANGED <<cls, ratings, predicted_ratings, train_mask, masked_ratings, dilated_mask,
                 is_predict, is_mask, is_mask_dilated, n_train_items,
                 mean, subject_similarity, H, W, sgd, calls>>

PredictCall ==
  /\ CanCall /\ UNCHANGED calls
  /\ \/ cls = "Mean" /\ Call(MeanPredict(Self), "predict", "")
     \/ cls = "KNN" /\ \E k \in 0..1 : Call(KNNPredict(Self, k), "predict", "")
     \/ cls = "NNMF_multiplicative" /\ Call(NNMFPredict(Self), "predict", "")
     \/ cls = "NNMF_sgd" /\ Call(SgdPredict(Self), "predict", "")

Evaluate(r, op, data) ==
  /\ last' = Outcome(op, data, r.err, r.cells, FALSE)
  /\ UNCHANGED <<cls, fields, loop, calls>>

GetMseCall == Idle /\ last.moved /\ \E data \in EvalArgs : Evaluate(GetMse(Self, data), "get_mse", data)
GetCorrCall == Idle /\ last.moved /\ \E data \in EvalArgs : Evaluate(GetCorr(Self, data), "get_corr", data)
GetSubMseCall == Idle /\ last.moved /\ \E data \in EvalArgs : Evaluate(GetSubMse(Self, data), "get_sub_mse", data)
GetSubCorrCall == Idle /\ last.moved /\ \E data \in EvalArgs : Evaluate(GetSubCorr(Self, data), "get_sub_corr", data)

Next ==
  \/ SplitTrainTestCall \/ DilateCall \/ DownsampleCall
  \/ FitMean \/ FitKNN \/ FitSgd \/ FitNNMF \/ NNMFUpdate \/ NNMFReturn
  \/ PredictCall
  \/ GetMseCall \/ GetCorrCall \/ GetSubMseCall \/ GetSubCorrCall

Spec == Init /\ [][Next]_vars

\* ------------------------------------------------------------------ claims
Accessors == {"get_mse", "get_corr", "get_sub_mse", "get_sub_corr"}

\* C1: each of get_mse, get_corr, get_sub_mse and get_sub_corr, for every data
\* argument, raises the unfit-state error when is_fit is false and the
\* no-prediction error when is_fit is true and is_predict is false; it raises
\* neither, and can return a value, only when both flags are true.
AccessorsGuardLifecycle ==
  last.op \in Accessors =>
    /\ ~is_fit => last.err = "unfit"
    /\ is_fit /\ ~is_predict => last.err = "no_prediction"
    /\ last.err \notin {"unfit", "no_prediction"} => is_fit /\ is_predict
    /\ is_fit /\ is_predict => last.err \notin {"unfit", "no_prediction"}

AccessorRefusedBeforePredict ==
  /\ last.op = "get_sub_corr" /\ last.arg = "validation"
  /\ is_fit /\ ~is_predict /\ last.err = "no_prediction"

\* C2: predict() on a model whose fit() never succeeded raises the unfit-state
\* error and leaves is_predict false and predicted_ratings None.
PredictBeforeFitIsRefused ==
  (last.op = "predict" /\ ~is_fit) =>
    /\ last.err = "unfit"
    /\ ~is_predict
    /\ predicted_ratings = None

MaskCellsAreObserved ==
  (is_mask /\ ~is_mask_dilated) =>
    \A rc \in TrueCells(train_mask) : ~IsNull(ratings.values[rc[1]][rc[2]])

\* C5: after a dilation, every row of dilated_mask has at least as many true
\* cells as the same row of train_mask (which the dilation leaves as it was).
DilationKeepsCoverage ==
  (last.op = "dilate" /\ last.err = Ok) =>
    \A r \in 1..NRows(train_mask) : RowCount(dilated_mask, r) >= RowCount(train_mask, r)

\* C6: a call that ends in an error leaves every field of the instance as it
\* was before the call.
FailedCallLeavesState ==
  last.err \notin {Ok, "running"} => ~last.moved

\* C7: whenever is_predict is true, predicted_ratings has the row labels, the
\* column labels and the shape of the current ratings table.
PredictionsMatchRatings ==
  is_predict =>
    /\ ~predicted_ratings.none
    /\ SameLabels(predicted_ratings, ratings)
    /\ SameShape(predicted_ratings, ratings)
    /\ NRows(ratings) = Len(ratings.values)
    /\ \A r \in 1..NRows(ratings) : Len(ratings.values[r]) = NCols(ratings)

PredictionsDownsampled ==
  /\ is_predict /\ is_mask /\ is_mask_dilated
  /\ last.op = "downsample" /\ last.err = Ok
  /\ NCols(predicted_ratings) < NItems

\* C8: for every bin width n_samples >= 1, downsample succeeds and leaves
\* ratings and every table present with ceil(width / n_samples) columns and the
\* rows it had.
DownsampleYieldsCeilColumns ==
  Idle =>
    \A n \in 1..(NItems + 1) :
      LET r == Downsample(Self, 1, n, "samples")
          w == CeilDiv(NCols(ratings), n)
          fits(df) == NCols(df) = w /\ NRows(df) = NRows(ratings)
                      /\ \A i \in 1..NRows(df) : Len(df.values[i]) = w
      IN /\ r.err = Ok
         /\ fits(r.self.ratings)
         /\ is_mask => fits(r.self.train_mask) /\ fits(r.self.masked_ratings)
         /\ is_mask /\ is_mask_dilated => fits(r.self.dilated_mask)
         /\ is_predict => fits(r.self.predicted_ratings)

TestSelectionErrors ==
  (last.op \in {"get_mse", "get_corr"} /\ is_fit /\ is_predict
     /\ last.arg \in {"training", "test"}) =>
    LET complement == {rc \in Cells(ratings) : ~train_mask.values[rc[1]][rc[2]]}
        blank == \A rc \in complement : ratings.values[rc[1]][rc[2]] = NaN
    IN /\ last.err = "missing_split" <=> ~is_mask
       /\ (is_mask /\ last.arg = "training") => last.err = Ok
       /\ (is_mask /\ last.arg = "test") =>
            /\ last.cells = complement
            /\ last.err = "no_test_data" <=> blank
            /\ ~blank => last.err = Ok

NoTestDataRaised ==
  /\ last.op = "get_corr" /\ last.arg = "test"
  /\ is_fit /\ is_predict /\ is_mask
  /\ last.err = "no_test_data"
  /\ last.cells # {}

\* C11: for every data in {all, training, test}, the cells that get_sub_mse and
\* get_sub_corr compare (selected, and missing on neither side) are the cells
\* that get_mse and get_corr compare for the same data.
SubAccessorsCompareSameCells ==
  (last.op \in {"get_sub_mse", "get_sub_corr"} /\ last.arg \in DataArgs
     /\ last.err = Ok /\ GetMse(Self, last.arg).err = Ok) =>
    LET table(sel) == IF sel.actual = "ratings" THEN ratings ELSE masked_ratings
        compared(sel) == {rc \in sel.cells :
                            /\ ~IsNull(table(sel).values[rc[1]][rc[2]])
                            /\ ~IsNull(predicted_ratings.values[rc[1]][rc[2]])}
        sub == IF last.op = "get_sub_mse" THEN GetSubMse(Self, last.arg)
                                          ELSE GetSubCorr(Self, last.arg)
        whole == IF last.op = "get_sub_mse" THEN GetMse(Self, last.arg)
                                            ELSE GetCorr(Self, last.arg)
    IN /\ last.cells = sub.cells
       /\ compared(sub) = compared(whole)

\* C12: a successful Mean.fit leaves the item means taken over the dilated mask
\* when is_mask_dilated is true, over the train mask when the model is masked and
\* not dilated, and over all ratings when the model has no mask.
MeanFitUsesMaskInForce ==
  (cls = "Mean" /\ last.op = "fit" /\ last.err = Ok) =>
    mean = ColumnMeans(IF ~is_mask THEN ratings
                       ELSE IF is_mask_dilated THEN Where(masked_ratings, dilated_mask)
                       ELSE Where(masked_ratings, train_mask))

\* C13: a dilation of an instance that is already dilated applies the moving
\* average to the already-dilated masked ratings.
DilationReentersItsOutput ==
  (Idle /\ is_mask /\ is_mask_dilated) =>
    \A n \in 2..NItems :
      LET d == DilateTsRatingSamples(Self, n)
      IN d.err = Ok =>
           d.self.masked_ratings =
             DF(masked_ratings.index, masked_ratings.columns,
                [r \in 1..NRows(masked_ratings) |->
                   ConvTsMeanOverlap(masked_ratings.values[r], n)])

\* C14: in every state with is_mask_dilated true, dilated_mask is true at exactly
\* the cells where masked_ratings is non-missing.
DilatedMaskTracksMaskedRatings ==
  (Idle /\ is_mask_dilated) => dilated_mask = NotNull(masked_ratings)

\* C15: for a masked KNN model, subject_similarity and predicted_ratings after
\* fit() and predict() are the same for any two instances with the same labels
\* and train_mask whose ratings agree on every cell that is true in train_mask.
KNNDependsOnTrainCellsOnly ==
  (cls = "KNN" /\ last.op = "predict" /\ last.err = Ok /\ is_mask /\ ~is_mask_dilated) =>
    \A other \in HeldOutVariants(Self) : KNNOutput(other) = KNNOutput(Self)

====
